---- MODULE Spec2Model ----
(***************************************************************************)
(* Overlapping Wave Function Collapse solver (OrangeDrangon/wfc).          *)
(*                                                                         *)
(* Patterns, slots and tiles are modelled from src/src/patterns.rs,        *)
(* src/src/slots.rs and src/src/tiles.rs, the cell from src/src/cells.rs,  *)
(* the exemplar extraction and the driver loop from src/src/main.rs, the   *)
(* toroidal neighbourhood from src/src/lib.rs.  The Wave that main.rs      *)
(* drives (Wave::new(&tiles, x, y, n), wave.collapsed(), a fallible        *)
(* wave.collapse()) is not among the sources: src/src/lib.rs holds an      *)
(* earlier Wave over an earlier Cell whose signatures do not fit           *)
(* cells.rs.  Its construction and its step are therefore modelled from    *)
(* section 4.G of the specification.                                       *)
(***************************************************************************)
EXTENDS Integers, Sequences, FiniteSets, TLC

\* ------------------------------------------------------------------ bounds

\* Largest exemplar width and height (pixels).
MaxImgW == 3
MaxImgH == 1
\* Pixel values are 0..MaxPixel.
MaxPixel == 1
\* Largest output grid (cells).
MaxX == 2
MaxY == 2
\* Largest number of tiles handed to one Wave.
MaxTiles == 2
\* Bounds of the calls of the pure functions: side of the output grid handed
\* to get_neighbors, length of a slot's data, side of a pattern.
MaxSide == 4
MaxSlotLen == 2
MaxSize == 2
\* Longest data handed to Pattern::new on its own.
MaxDataLen == 5
\* Side of the patterns handed to all_permutations (3 is the side main.rs
\* uses; a binary pattern of side 2 has at most 4 different permutations).
MaxPermSize == 3

\* Pattern window of the driver: let n = 3u32.
n == 3

\* F(v), with the value of v computed once and then handed to F.
With(F(_), v) == CHOOSE r \in { F(a) : a \in { v } } : TRUE

\* ------------------------------------------------------------ slots.rs


\* enum Location, in declaration (= iteration) order.
Location == <<"North", "East", "South", "West">>

Locations == {Location[k] : k \in 1..4}

\* Location::opposite answering as Location::rotate does.
opposite_turned(l) ==
  CASE l = "North" -> "East"
    [] l = "East"  -> "South"
    [] l = "South" -> "West"
    [] l = "West"  -> "North"

opposite(l) ==
  CASE l = "North" -> "South"
    [] l = "East"  -> "West"
    [] l = "South" -> "North"
    [] l = "West"  -> "East"

\* Slot::new
SlotNew(data, location) == [data |-> data, location |-> location]

\* Iterator::rev and Iterator::zip (zip ends with the shorter side).
rev(s) == [k \in 1..Len(s) |-> s[Len(s) + 1 - k]]

zip(s, t) == [k \in 1..(IF Len(s) <= Len(t) THEN Len(s) ELSE Len(t)) |-> << s[k], t[k] >>]

\* Slot::can_be_adjacent without its comparison of the lengths.
can_be_adjacent_unchecked(self, slot) ==
  IF self.location # opposite(slot.location) THEN FALSE
  ELSE \A k \in DOMAIN zip(self.data, rev(slot.data)) :
         zip(self.data, rev(slot.data))[k][1] = zip(self.data, rev(slot.data))[k][2]

\* Slot::can_be_adjacent without the .rev() of the other side.
can_be_adjacent_unreversed(self, slot) ==
  IF self.location # opposite(slot.location) THEN FALSE
  ELSE IF Len(self.data) # Len(slot.data) THEN FALSE
  ELSE \A k \in DOMAIN zip(self.data, slot.data) :
         zip(self.data, slot.data)[k][1] = zip(self.data, slot.data)[k][2]

\* Slot::can_be_adjacent: the two early returns, then
\* self.data.iter().zip(slot.data.iter().rev()).all(|(e1, e2)| e1 == e2).
can_be_adjacent(self, slot) ==
  IF self.location # opposite(slot.location) THEN FALSE
  ELSE IF Len(self.data) # Len(slot.data) THEN FALSE
  ELSE \A k \in DOMAIN zip(self.data, rev(slot.data)) :
         zip(self.data, rev(slot.data))[k][1] = zip(self.data, rev(slot.data))[k][2]

\* ---------------------------------------------------------- patterns.rs

\* integer_sqrt
isqrt(k) == CHOOSE s \in 0..k : s * s <= k /\ (s + 1) * (s + 1) > k

\* Pattern::new without its assert_eq!.
PatternNewOk_unasserted(data) == TRUE

\* Pattern::new; the assert_eq! makes construction fail on a length that is
\* not a perfect square.
PatternNewOk(data) == Len(data) = isqrt(Len(data)) * isqrt(Len(data))

PatternNew(data) == [data |-> data, size |-> isqrt(Len(data))]

\* Iterator::take, Iterator::skip and Iterator::step_by (step >= 1) over a
\* sequence.
take(s, k) == [j \in 1..(IF k <= Len(s) THEN k ELSE Len(s)) |-> s[j]]

skip(s, k) == [j \in 1..(IF k <= Len(s) THEN Len(s) - k ELSE 0) |-> s[k + j]]

step_by(s, k) == [j \in 1..((Len(s) + k - 1) \div k) |-> s[(j - 1) * k + 1]]

\* Pattern::slot with the East and West arms exchanged.
slot_exchanged(p, location) ==
  CASE location = "North" -> SlotNew(take(p.data, p.size), "North")
    [] location = "East" -> SlotNew(step_by(p.data, p.size), "East")
    [] location = "South" -> SlotNew(skip(p.data, Len(p.data) - p.size), "South")
    [] location = "West" -> SlotNew(step_by(skip(p.data, p.size - 1), p.size), "West")

\* Pattern::slot, for a pattern of size >= 1.
slot(p, location) ==
  CASE location = "North" -> SlotNew(take(p.data, p.size), "North")
    [] location = "East" -> SlotNew(step_by(skip(p.data, p.size - 1), p.size), "East")
    [] location = "South" -> SlotNew(skip(p.data, Len(p.data) - p.size), "South")
    [] location = "West" -> SlotNew(step_by(p.data, p.size), "West")

\* Pattern::is_compatible taking both slots from self.
is_compatible_self(a, b, b_location) ==
  can_be_adjacent(slot(a, b_location), slot(a, opposite(b_location)))

\* Pattern::is_compatible
is_compatible(a, b, b_location) ==
  can_be_adjacent(slot(a, b_location), slot(b, opposite(b_location)))

\* Pattern::rotate writing rotated[row * size + col] = data[col * size + row]:
\* a transposition.
rotate_transposing(p) ==
  [data |-> [k \in 1..Len(p.data) |->
               LET r == (k - 1) \div p.size
                   c == (k - 1) % p.size
               IN p.data[c * p.size + r + 1]],
   size |-> p.size]

\* Pattern::rotate with new_row = row: only the cells (row, size - 1 - row)
\* are written, last by the column size - 1; the others keep Data::default().
rotate_unwritten(p) ==
  [data |-> [k \in 1..Len(p.data) |->
               LET r == (k - 1) \div p.size
                   c == (k - 1) % p.size
               IN IF c = p.size - 1 - r THEN p.data[r * p.size + (p.size - 1) + 1] ELSE 0],
   size |-> p.size]

\* Pattern::rotate: out[new_row * size + new_col] = data[row * size + col]
\* with new_col = size - 1 - row and new_row = col.  Written by destination:
\* destination (r, c) receives source (size - 1 - c, r).
rotate(p) ==
  [data |-> [k \in 1..Len(p.data) |->
               LET r == (k - 1) \div p.size
                   c == (k - 1) % p.size
               IN p.data[(p.size - 1 - c) * p.size + r + 1]],
   size |-> p.size]

\* Pattern::reflect mirroring the rows instead of the columns.
reflect_rows(p) ==
  [data |-> [k \in 1..Len(p.data) |->
               LET r == (k - 1) \div p.size
                   c == (k - 1) % p.size
               IN p.data[(p.size - 1 - r) * p.size + c + 1]],
   size |-> p.size]

\* Pattern::reflect: out[row * size + col] = data[row * size + size - 1 - col]
reflect(p) ==
  [data |-> [k \in 1..Len(p.data) |->
               LET r == (k - 1) \div p.size
                   c == (k - 1) % p.size
               IN p.data[r * p.size + (p.size - 1 - c) + 1]],
   size |-> p.size]

\* Pattern::all_permutations turning pattern again where it should turn
\* rotated.
all_permutations_unturned(p) ==
  LET reflected == reflect(p)
      rotated == rotate(p)
      rotated_reflected == reflect(rotated)
      rotated_rotated == rotate(p)
      rotated_rotated_reflected == reflect(rotated_rotated)
      rotated_rotated_rotated == rotate(rotated_rotated)
      rotated_rotated_rotated_reflected == reflect(rotated_rotated_rotated)
  IN << p, reflected, rotated, rotated_reflected, rotated_rotated,
        rotated_rotated_reflected, rotated_rotated_rotated,
        rotated_rotated_rotated_reflected >>

\* Pattern::all_permutations
all_permutations(p) ==
  LET reflected == reflect(p)
      rotated == rotate(p)
      rotated_reflected == reflect(rotated)
      rotated_rotated == rotate(rotated)
      rotated_rotated_reflected == reflect(rotated_rotated)
      rotated_rotated_rotated == rotate(rotated_rotated)
      rotated_rotated_rotated_reflected == reflect(rotated_rotated_rotated)
  IN << p, reflected, rotated, rotated_reflected, rotated_rotated,
        rotated_rotated_reflected, rotated_rotated_rotated,
        rotated_rotated_rotated_reflected >>

\* -------------------------------------------------------------- main.rs

\* The decoded exemplars: w by h pixels, px[y * w + x + 1] the pixel at (x, y).
Images ==
  UNION { UNION { { [w |-> w, h |-> h, px |-> f] : f \in [1..(w * h) -> 0..MaxPixel] }
                  : h \in 1..MaxImgH }
          : w \in 1..MaxImgW }

get_pixel(img, x, y) == img.px[y * img.w + x + 1]

\* The n by n window at (x, y): pixel_data is pushed for i in 0..n, j in 0..n
\* as get_pixel((x + i) % width, (y + j) % height).
Window(img, x, y) ==
  PatternNew([k \in 1..(n * n) |->
                LET i == (k - 1) \div n
                    j == (k - 1) % n
                IN get_pixel(img, (x + i) % img.w, (y + j) % img.h)])

\* The insertions into the HashBag in the order of the loops: for x, for y,
\* for every permutation of the window at (x, y).
Insertions(img) ==
  [m \in 1..(img.w * img.h * 8) |->
     all_permutations(Window(img, (m - 1) \div (img.h * 8), ((m - 1) \div 8) % img.h))
       [((m - 1) % 8) + 1]]

\* The HashBag after the loops: each distinct pattern with its count.
BagOf(ins) ==
  [q \in { ins[m] : m \in DOMAIN ins } |-> Cardinality({ m \in DOMAIN ins : ins[m] = q })]

\* The position at which pattern q is inserted first.
FirstIndex(ins, q) == CHOOSE m \in DOMAIN ins : ins[m] = q /\ \A k \in 1..(m - 1) : ins[k] # q

\* The distinct patterns in the order of their first insertion.
FirstInserted(ins) ==
  LET firsts == { m \in DOMAIN ins : \A k \in 1..(m - 1) : ins[k] # ins[m] }
  IN [k \in 1..Cardinality(firsts) |->
        ins[CHOOSE m \in firsts : Cardinality({ j \in firsts : j < m }) = k - 1]]

Reverse(s) == [k \in 1..Len(s) |-> s[Len(s) + 1 - k]]

\* The entries of s at the positions in I, in the order of s.
RECURSIVE Pick(_, _, _)
Pick(s, I, k) ==
  IF k > Len(s) THEN << >>
  ELSE (IF k \in I THEN << s[k] >> ELSE << >>) \o Pick(s, I, k + 1)

\* Tile::new, called as Tile::new(pattern, frequency / pattern_count, id) for
\* every (id, (pattern, frequency)) of the bag's enumeration.  pattern_count is
\* the same for all tiles of a run, so the probability is kept as its
\* numerator, the frequency: an exact number, and every use of the weights
\* below (weighted choice, entropy order) is invariant under a common scale.
TileNew(pattern, probability, id) ==
  [pattern |-> pattern, probability |-> probability, id |-> id]

\* patterns.into_iter().enumerate().map(...).collect() over a given enumeration.
TilesOf(bag, enumeration) ==
  [k \in 1..Len(enumeration) |-> TileNew(enumeration[k], bag[enumeration[k]], k - 1)]

\* The tile tables a Wave can be given from an exemplar.  The HashBag
\* enumerates in the order of its per-process hasher: the model draws the
\* order of first insertion and its reverse.  The driver passes all tiles;
\* another caller of the library passes any of them, here at most MaxTiles.
TablesOf(bag, order) ==
  { TilesOf(bag, order) } \cup
  { TilesOf(bag, Pick(order, I, 1)) :
      I \in { J \in SUBSET (1..Len(order)) : J # {} /\ Cardinality(J) <= MaxTiles } }

TileTables(img) ==
  UNION { UNION { TablesOf(BagOf(ins), order) \cup TablesOf(BagOf(ins), Reverse(order))
                  : order \in { FirstInserted(ins) } }
          : ins \in { Insertions(img) } }

AllTileTables(images) == UNION { TileTables(img) : img \in images }

\* ------------------------------------------------------------- tiles.rs

\* Tile::is_compatible
tile_is_compatible(a, b, b_location) == is_compatible(a.pattern, b.pattern, b_location)

\* TileTable<T> indexed by &Tile: slot index.id.0 of the boxed slice.
Ix(tile) == tile.id + 1

\* ------------------------------------------------------------- cells.rs

\* LocationTable::default() of counters.
ZeroWays == [l \in Locations |-> 0]

\* WaysToBecomeTile::clear
clear(w) == ZeroWays

\* WaysToBecomeTile::decrement with the 0 arm missing: a counter at 0 is taken
\* as reaching zero again.
decrement_from_zero(w, location) ==
  IF w[location] <= 1 THEN [ways |-> clear(w), result |-> "Zero"]
  ELSE [ways |-> [w EXCEPT ![location] = w[location] - 1], result |-> "NotZero"]

\* WaysToBecomeTile::decrement reporting Zero only once the counters of all
\* four locations are used up.
decrement_summed(w, location) ==
  IF w[location] = 0 THEN [ways |-> w, result |-> "AlreadyZero"]
  ELSE IF \A l \in Locations : [w EXCEPT ![location] = w[location] - 1][l] = 0
    THEN [ways |-> clear(w), result |-> "Zero"]
    ELSE [ways |-> [w EXCEPT ![location] = w[location] - 1], result |-> "NotZero"]

\* WaysToBecomeTile::decrement: the new counters and the result.
decrement(w, location) ==
  CASE w[location] = 0 -> [ways |-> w, result |-> "AlreadyZero"]
    [] w[location] = 1 -> [ways |-> clear(w), result |-> "Zero"]
    [] OTHER -> [ways |-> [w EXCEPT ![location] = w[location] - 1], result |-> "NotZero"]

\* f64::log(2.0) in thousandths.  The logarithm of a prime is rounded to three
\* decimals and that of a product is the sum over its factors, so that equal
\* entropies stay equal.
LeastFactor(k) == CHOOSE f \in 2..k : k % f = 0 /\ \A g \in 2..(f - 1) : k % g # 0

RECURSIVE Log2Milli(_)
Log2Milli(k) ==
  CASE k = 1 -> 0
    [] k = 2 -> 1000 [] k = 3 -> 1585 [] k = 5 -> 2322 [] k = 7 -> 2807 [] k = 11 -> 3459
    [] k = 13 -> 3700 [] k = 17 -> 4087 [] k = 19 -> 4248 [] k = 23 -> 4524 [] k = 29 -> 4858
    [] k = 31 -> 4954 [] k = 37 -> 5209 [] k = 41 -> 5358 [] k = 43 -> 5426 [] k = 47 -> 5555
    [] k = 53 -> 5728 [] k = 59 -> 5883 [] k = 61 -> 5931 [] k = 67 -> 6066 [] k = 71 -> 6150
    [] k = 73 -> 6190 [] k = 79 -> 6304 [] k = 83 -> 6375 [] k = 89 -> 6476 [] k = 97 -> 6600
    [] OTHER -> Log2Milli(LeastFactor(k)) + Log2Milli(k \div LeastFactor(k))

\* p * p.log(2.0)
WLogW(p) == p * Log2Milli(p)

RECURSIVE SumSeq(_)
SumSeq(s) == IF s = << >> THEN 0 ELSE Head(s) + SumSeq(Tail(s))

\* Cell::new.  tiles[k] is the Option at slot k: TRUE for Some(tile k).
CellNew(tileset, ways_to_become_tile, tiles) ==
  [ num_remaining_tiles |-> Len(tiles),
    ways_to_become_tile |-> ways_to_become_tile,
    tiles |-> tiles,
    sum_weights |->
      SumSeq([k \in 1..Len(tiles) |-> IF tiles[k] THEN tileset[k].probability ELSE 0]),
    sum_weight_log_weight |->
      SumSeq([k \in 1..Len(tiles) |-> IF tiles[k] THEN WLogW(tileset[k].probability) ELSE 0]) ]

\* Cell::invalid with the comparison slipped: no count is below zero.
invalid_never(cell) == cell.num_remaining_tiles < 0

\* Cell::invalid, Cell::collapsed, Cell::uncollapsed
invalid(cell) == cell.num_remaining_tiles = 0

collapsed(cell) == cell.num_remaining_tiles = 1

\* Cell::uncollapsed with the bound slipped by one: a collapsed cell passes.
uncollapsed_from_one(cell) == cell.num_remaining_tiles >= 1

uncollapsed(cell) == cell.num_remaining_tiles >= 2

\* Cell::update_entropy_constants without its first subtraction.
update_entropy_constants_unsummed(cell, tile) ==
  [cell EXCEPT !.sum_weight_log_weight = @ - WLogW(tile.probability)]

\* Cell::update_entropy_constants
update_entropy_constants(cell, tile) ==
  [cell EXCEPT !.sum_weights = @ - tile.probability,
               !.sum_weight_log_weight = @ - WLogW(tile.probability)]

\* The tiles a cell still holds, in table order.
RECURSIVE RemainingFrom(_, _, _)
RemainingFrom(tileset, tiles, k) ==
  IF k > Len(tiles) THEN << >>
  ELSE (IF tiles[k] THEN << tileset[k] >> ELSE << >>) \o RemainingFrom(tileset, tiles, k + 1)

Remaining(tileset, cell) == RemainingFrom(tileset, cell.tiles, 1)

\* choose_weighted picks among the remaining tiles one of positive weight.
Choosable(tileset, cell) ==
  { Remaining(tileset, cell)[k] : k \in { j \in 1..Len(Remaining(tileset, cell)) :
                                           Remaining(tileset, cell)[j].probability > 0 } }

\* Cell::collapse's closing loop without its clear() of the counters.
RECURSIVE ClearRemoved_keeping(_, _)
ClearRemoved_keeping(cell, removed) ==
  IF removed = << >> THEN cell
  ELSE ClearRemoved_keeping(update_entropy_constants(cell, Head(removed)), Tail(removed))

\* Cell::collapse's closing loop over the removed tiles.
RECURSIVE ClearRemoved(_, _)
ClearRemoved(cell, removed) ==
  IF removed = << >> THEN cell
  ELSE ClearRemoved(
         update_entropy_constants(
           [cell EXCEPT !.ways_to_become_tile[Ix(Head(removed))] =
                          clear(cell.ways_to_become_tile[Ix(Head(removed))])],
           Head(removed)),
         Tail(removed))

\* Cell::collapse without its assignment num_remaining_tiles = 1.
collapse_uncounted(tileset, cell, choosen) ==
  LET removed_table == [cell.tiles EXCEPT ![Ix(choosen)] = FALSE]
      kept == [k \in 1..Len(cell.tiles) |-> k = Ix(choosen)]
      removed == RemainingFrom(tileset, removed_table, 1)
  IN [ cell |-> ClearRemoved([cell EXCEPT !.tiles = kept], removed),
       removed |-> removed ]

\* Cell::collapse with the tile the weighted choice returned: the cell after
\* it and the boxed slice it returns.
collapse(tileset, cell, choosen) ==
  LET removed_table == [cell.tiles EXCEPT ![Ix(choosen)] = FALSE]
      kept == [k \in 1..Len(cell.tiles) |-> k = Ix(choosen)]
      removed == RemainingFrom(tileset, removed_table, 1)
  IN [ cell |-> ClearRemoved([cell EXCEPT !.tiles = kept, !.num_remaining_tiles = 1],
                             removed),
       removed |-> removed ]

\* Cell::remove_tile without its decrement of num_remaining_tiles.
remove_tile_uncounted(cell, removed) ==
  [ cell |-> update_entropy_constants([cell EXCEPT !.tiles[Ix(removed)] = FALSE], removed),
    out |-> cell.tiles[Ix(removed)] ]

\* Cell::remove_tile: the cell after it and whether it returns Some(removed).
remove_tile(cell, removed) ==
  [ cell |-> update_entropy_constants(
               [cell EXCEPT !.tiles[Ix(removed)] = FALSE,
                            !.num_remaining_tiles = @ - 1],
               removed),
    out |-> cell.tiles[Ix(removed)] ]

\* Cell::removed_neighbor_tile losing the Option of remove_tile: the tile
\* leaves and None is returned.
removed_neighbor_tile_silent(cell, removed, removed_location) ==
  LET d == decrement(cell.ways_to_become_tile[Ix(removed)], removed_location)
      counted == [cell EXCEPT !.ways_to_become_tile[Ix(removed)] = d.ways]
  IN CASE d.result = "AlreadyZero" -> [cell |-> counted, out |-> FALSE]
       [] d.result = "NotZero" -> [cell |-> counted, out |-> FALSE]
       [] d.result = "Zero" -> [cell |-> remove_tile(counted, removed).cell, out |-> FALSE]

\* Cell::removed_neighbor_tile answering Some(removed) in the NotZero arm too.
removed_neighbor_tile_eager(cell, removed, removed_location) ==
  LET d == decrement(cell.ways_to_become_tile[Ix(removed)], removed_location)
      counted == [cell EXCEPT !.ways_to_become_tile[Ix(removed)] = d.ways]
  IN CASE d.result = "AlreadyZero" -> [cell |-> counted, out |-> FALSE]
       [] d.result = "NotZero" -> [cell |-> counted, out |-> TRUE]
       [] d.result = "Zero" -> remove_tile(counted, removed)

\* Cell::removed_neighbor_tile
removed_neighbor_tile(cell, removed, removed_location) ==
  LET d == decrement(cell.ways_to_become_tile[Ix(removed)], removed_location)
      counted == [cell EXCEPT !.ways_to_become_tile[Ix(removed)] = d.ways]
  IN CASE d.result = "AlreadyZero" -> [cell |-> counted, out |-> FALSE]
       [] d.result = "NotZero" -> [cell |-> counted, out |-> FALSE]
       [] d.result = "Zero" -> remove_tile(counted, removed)


\* Cell::entropy is log2(sum_weights) - sum_weight_log_weight / sum_weights.
\* entropy_le(a, b) is entropy(a) <= entropy(b), both sides multiplied by the
\* two (positive) sums of weights.
EntropyTimesSum(cell) == cell.sum_weights * Log2Milli(cell.sum_weights) - cell.sum_weight_log_weight

entropy_le(a, b) == EntropyTimesSum(a) * b.sum_weights <= EntropyTimesSum(b) * a.sum_weights

\* --------------------------------------------------------------- lib.rs

\* Wave::get_neighbors wrapping east and west over the whole grid instead of
\* the row.
get_neighbors_flat(x_cells, y_cells, index) ==
  LET row == index \div x_cells
      col == index % x_cells
      north == ((row + y_cells - 1) % y_cells) * x_cells + col
      east == (index + 1) % (x_cells * y_cells)
      south == ((row + 1) % y_cells) * x_cells + col
      west == (index + x_cells * y_cells - 1) % (x_cells * y_cells)
  IN << north, east, south, west >>

\* Wave::get_neighbors: [north, east, south, west] of a row-major index.
get_neighbors(x_cells, y_cells, index) ==
  LET row == index \div x_cells
      col == index % x_cells
      north == ((row + y_cells - 1) % y_cells) * x_cells + col
      east == (row * x_cells) + ((col + 1) % x_cells)
      south == ((row + 1) % y_cells) * x_cells + col
      west == (row * x_cells) + ((col + x_cells - 1) % x_cells)
  IN << north, east, south, west >>

\* ----------------------------------------- the Wave (specification 4.E, 4.G)

\* AdjacencyIndex: seed_support[a][d] = |{b : compat[b][opposite(d)][a]}|.
seed_support(tileset) ==
  [a \in 1..Len(tileset) |->
     [d \in Locations |->
        Cardinality({ b \in 1..Len(tileset) :
                        tile_is_compatible(tileset[b], tileset[a], opposite(d)) })]]

\* Wave::new: one Cell per location, all identical, every tile present, seeded
\* from the AdjacencyIndex; the collapse count starts at 0.
WaveNew(tileset, x, y) ==
  LET cell == CellNew(tileset, seed_support(tileset), [k \in 1..Len(tileset) |-> TRUE])
  IN [ cells |-> [i \in 0..(x * y - 1) |-> cell], num_collapsed |-> 0 ]

\* Wave::collapsed (is_collapsed): num_collapsed == X * Y.
is_collapsed(x, y, nc) == nc = x * y

\* lowest_entropy_cells: the uncollapsed cells sharing the minimum entropy.
lowest_entropy_cells(cs) ==
  { i \in DOMAIN cs : uncollapsed(cs[i]) /\
      \A j \in DOMAIN cs : uncollapsed(cs[j]) => entropy_le(cs[i], cs[j]) }

\* A propagation event.
RemovedTile(cell_index, tile) == [cell_index |-> cell_index, tile |-> tile]

\* Step 4: one event per eliminated tile, in the order collapse returned them.
Enqueue(index, removed) == [k \in 1..Len(removed) |-> RemovedTile(index, removed[k])]

\* Step 6 for one neighbour: the event's cell notifies its neighbour in
\* direction Location[k] with the opposite direction.  w is the wave with its
\* queue; err is -1 or the index of the cell found invalid.
Notify(x, y, w, event, k) ==
  LET j == get_neighbors(x, y, event.cell_index)[k]
      r == removed_neighbor_tile(w.cells[j], event.tile, opposite(Location[k]))
  IN [ cells |-> [w.cells EXCEPT ![j] = r.cell],
       num_collapsed |-> IF uncollapsed(w.cells[j]) /\ collapsed(r.cell)
                           THEN w.num_collapsed + 1 ELSE w.num_collapsed,
       queue |-> IF r.out THEN Append(w.queue, RemovedTile(j, event.tile)) ELSE w.queue,
       err |-> IF invalid(r.cell) THEN j ELSE -1,
       enqueued |-> IF r.out THEN Append(w.enqueued, RemovedTile(j, event.tile))
                    ELSE w.enqueued,
       processed |-> w.processed,
       visits |-> Append(w.visits,
                         [ event |-> event, d |-> Location[k], j |-> j,
                           notified |-> opposite(Location[k]),
                           gone |-> { t \in DOMAIN r.cell.tiles :
                                        w.cells[j].tiles[t] /\ ~ r.cell.tiles[t] },
                           out |-> r.out ]),
       max_queue |-> IF r.out /\ Len(w.queue) + 1 > w.max_queue
                       THEN Len(w.queue) + 1 ELSE w.max_queue ]

\* Step 6 for one event: the four neighbours in the order of Location, up to
\* the first invalid cell.
Fan(x, y, w, event) ==
  With(LAMBDA n1 : IF n1.err # -1 THEN n1 ELSE
    With(LAMBDA n2 : IF n2.err # -1 THEN n2 ELSE
      With(LAMBDA n3 : IF n3.err # -1 THEN n3 ELSE Notify(x, y, n3, event, 4),
           Notify(x, y, n2, event, 3)),
         Notify(x, y, n1, event, 2)),
       Notify(x, y, w, event, 1))

\* Step 6, the drain: pop the front event and fan it out, until the queue is
\* empty or a cell is invalid.
RECURSIVE Drain(_, _, _)
Drain(x, y, w) ==
  IF w.err # -1 \/ w.queue = << >> THEN w
  ELSE With(LAMBDA f : Drain(x, y, f),
            Fan(x, y, [w EXCEPT !.queue = Tail(w.queue),
                                !.processed = Append(@, Head(w.queue))],
                Head(w.queue)))

\* Steps 3 to 7 for the cell and the tile the two random choices returned.
step(tileset, x, y, cs, nc, index, choosen) ==
  With(LAMBDA c :
    With(LAMBDA d :
           [ cells |-> d.cells,
             num_collapsed |-> d.num_collapsed,
             result |-> IF d.err # -1 THEN [kind |-> "Contradiction", cell |-> d.err]
                        ELSE IF \E i \in DOMAIN d.cells : uncollapsed(d.cells[i])
                          THEN [kind |-> "Continue", cell |-> -1]
                          ELSE [kind |-> "Done", cell |-> -1],
             log |-> [ enqueued |-> d.enqueued, processed |-> d.processed,
                       visits |-> d.visits, max_queue |-> d.max_queue ] ],
         Drain(x, y, [ cells |-> [cs EXCEPT ![index] = c.cell],
                       num_collapsed |-> nc + 1,
                       queue |-> Enqueue(index, c.removed),
                       err |-> -1,
                       enqueued |-> Enqueue(index, c.removed),
                       processed |-> << >>,
                       visits |-> << >>,
                       max_queue |-> Len(c.removed) ])),
       collapse(tileset, cs[index], choosen))

\* ------------------------------------------------------------ the program

\* tiles .. pc are one run of the program.  twin is a second run of it on the
\* same exemplar, the same grid and the same seed, kept only by the
\* specification that compares two runs (SpecTwin).  selected is the index of
\* the cell the last step picked (step's local i*), -1 before the first pick.
\* events is the history of the propagation queue: every event enqueued in
\* the run so far (enqueued; those of the last step start after position
\* from), the events the last step popped, in order (processed), the
\* neighbours it notified, in order (visits), and the longest the queue has
\* been (max_queue).
VARIABLES tiles, x_cells, y_cells, cells, num_collapsed, result, steps, pc, twin, selected,
          events

\* No event yet.
NoEvents ==
  [ enqueued |-> << >>, from |-> 0, processed |-> << >>, visits |-> << >>, max_queue |-> 0 ]

vars == << tiles, x_cells, y_cells, cells, num_collapsed, result, steps, pc, twin, selected, events >>

\* main up to the loop: the exemplar is read, the tiles are built, the Wave is
\* constructed.
Init ==
  /\ tiles \in AllTileTables(Images)
  /\ x_cells \in 1..MaxX
  /\ y_cells \in 1..MaxY
  /\ \E w \in { WaveNew(tiles, x_cells, y_cells) } :
       /\ cells = w.cells
       /\ num_collapsed = w.num_collapsed
  /\ result = [kind |-> "None", cell |-> -1]
  /\ steps = 0
  /\ pc = "loop"
  /\ twin = << >>
  /\ selected = -1
  /\ events = NoEvents

\* while !wave.collapsed() { wave.collapse()?; } -- one iteration whose step
\* finds a cell to observe.  An Err leaves main through the question mark.
Collapse ==
  /\ pc = "loop"
  /\ ~ is_collapsed(x_cells, y_cells, num_collapsed)
  /\ \E index \in lowest_entropy_cells(cells) :
       \E choosen \in Choosable(tiles, cells[index]) :
         \E s \in { step(tiles, x_cells, y_cells, cells, num_collapsed, index, choosen) } :
            /\ cells' = s.cells
            /\ num_collapsed' = s.num_collapsed
            /\ result' = s.result
            /\ pc' = IF s.result.kind = "Contradiction" THEN "failed" ELSE "loop"
            /\ selected' = index
            /\ events' = [ enqueued |-> events.enqueued \o s.log.enqueued,
                           from |-> Len(events.enqueued),
                           processed |-> s.log.processed,
                           visits |-> s.log.visits,
                           max_queue |-> IF s.log.max_queue > events.max_queue
                                           THEN s.log.max_queue ELSE events.max_queue ]
  /\ steps' = steps + 1
  /\ UNCHANGED << tiles, x_cells, y_cells, twin >>

\* One iteration whose step finds no uncollapsed cell although num_collapsed
\* is below X * Y: the step has no cell to pick and no error value for it
\* (the core produces AlreadyCollapsed and Contradiction only); it fails.
CollapseNoCell ==
  /\ pc = "loop"
  /\ ~ is_collapsed(x_cells, y_cells, num_collapsed)
  /\ lowest_entropy_cells(cells) = {}
  /\ result' = [kind |-> "Panic", cell |-> -1]
  /\ pc' = "aborted"
  /\ steps' = steps + 1
  /\ UNCHANGED << tiles, x_cells, y_cells, cells, num_collapsed, twin, selected, events >>

\* The loop condition fails: main goes on to render the wave.
Exit ==
  /\ pc = "loop"
  /\ is_collapsed(x_cells, y_cells, num_collapsed)
  /\ pc' = "done"
  /\ UNCHANGED << tiles, x_cells, y_cells, cells, num_collapsed, result, steps, twin, selected, events >>

\* A caller steps a finished wave once more: step 1 returns AlreadyCollapsed.
CollapseAgain ==
  /\ pc = "done"
  /\ result.kind # "AlreadyCollapsed"
  /\ is_collapsed(x_cells, y_cells, num_collapsed)
  /\ result' = [kind |-> "AlreadyCollapsed", cell |-> -1]
  /\ steps' = steps + 1
  /\ UNCHANGED << tiles, x_cells, y_cells, cells, num_collapsed, pc, twin, selected, events >>

Next == Collapse \/ CollapseNoCell \/ Exit \/ CollapseAgain

Spec == Init /\ [][Next]_vars

\* ------------------------------------------- two runs from the same seed

\* The driver's tile tables of an exemplar: all tiles, in either enumeration
\* order of the HashBag.
DriverTables(img) ==
  UNION { UNION { { TilesOf(BagOf(ins), order), TilesOf(BagOf(ins), Reverse(order)) }
                  : order \in { FirstInserted(ins) } }
          : ins \in { Insertions(img) } }

\* gen_range(0..len) over the lowest-entropy cells: the u-th of them, u from 1.
NthCell(S, u) == CHOOSE i \in S : Cardinality({ j \in S : j < i }) = u - 1

\* choose_weighted: the first tile whose cumulative weight exceeds the drawn
\* weight u, 0 <= u < total.
RECURSIVE WeightedPick(_, _)
WeightedPick(remaining, u) ==
  IF Len(remaining) = 1 \/ u < Head(remaining).probability THEN Head(remaining)
  ELSE WeightedPick(Tail(remaining), u - Head(remaining).probability)

\* A wave as an observer sees it: the patterns each cell still holds.
View(tileset, cs) ==
  [i \in DOMAIN cs |-> { tileset[k].pattern : k \in { m \in 1..Len(tileset) : cs[i].tiles[m] } }]

\* The two runs have made the same picks and are in the same wave state.
TwinAgrees ==
  /\ twin.picks = twin.my_picks
  /\ View(twin.tiles, twin.cells) = View(tiles, cells)
  /\ twin.num_collapsed = num_collapsed
  /\ twin.result = result

\* Two processes are started on the same exemplar and grid with the same seed.
\* Each enumerates its own HashBag.
InitTwin ==
  /\ \E img \in Images :
       /\ tiles \in DriverTables(img)
       /\ x_cells \in 1..MaxX
       /\ y_cells \in 1..MaxY
       /\ \E other \in DriverTables(img) :
            \E w \in { WaveNew(tiles, x_cells, y_cells) } :
              \E v \in { WaveNew(other, x_cells, y_cells) } :
                /\ cells = w.cells
                /\ num_collapsed = w.num_collapsed
                /\ twin = [ tiles |-> other, cells |-> v.cells,
                            num_collapsed |-> v.num_collapsed,
                            result |-> [kind |-> "None", cell |-> -1],
                            picks |-> << >>, my_picks |-> << >> ]
  /\ result = [kind |-> "None", cell |-> -1]
  /\ steps = 0
  /\ pc = "loop"
  /\ selected = -1
  /\ events = NoEvents

\* Both runs make their next step.  Having agreed so far they have consumed
\* the same random numbers, so the seeded generators return the same two
\* draws in both: u1 for the cell, u2 for the weighted choice of its tile.
TwinCollapse ==
  /\ pc = "loop"
  /\ TwinAgrees
  /\ ~ is_collapsed(x_cells, y_cells, num_collapsed)
  /\ \E S \in { lowest_entropy_cells(cells) } : \E u1 \in 1..Cardinality(S) :
       \E index \in { NthCell(S, u1) } : \E u2 \in 0..(cells[index].sum_weights - 1) :
         \E mine \in { WeightedPick(Remaining(tiles, cells[index]), u2) } :
           \E its \in { WeightedPick(Remaining(twin.tiles, twin.cells[index]), u2) } :
             \E s \in { step(tiles, x_cells, y_cells, cells, num_collapsed, index, mine) } :
               \E t \in { step(twin.tiles, x_cells, y_cells, twin.cells,
                                twin.num_collapsed, index, its) } :
               /\ selected' = index
               /\ cells' = s.cells
               /\ num_collapsed' = s.num_collapsed
               /\ result' = s.result
               /\ pc' = IF s.result.kind = "Contradiction" THEN "failed" ELSE "loop"
               /\ twin' = [ twin EXCEPT !.cells = t.cells,
                                         !.num_collapsed = t.num_collapsed,
                                         !.result = t.result,
                                         !.picks = Append(@, << index, its.pattern >>),
                                         !.my_picks = Append(@, << index, mine.pattern >>) ]
  /\ steps' = steps + 1
  /\ UNCHANGED << tiles, x_cells, y_cells, events >>

NextTwin == TwinCollapse

SpecTwin == InitTwin /\ [][NextTwin]_vars

\* ------------------------------------------------- a cell under its calls

\* One cell, built as Wave::new builds it from a table of at most MaxTiles
\* tiles, then called in any order.  result holds the last call and what it
\* returned.
InitCell ==
  /\ tiles \in { t \in AllTileTables(Images) : Len(t) <= MaxTiles }
  /\ x_cells = 1
  /\ y_cells = 1
  /\ \E w \in { WaveNew(tiles, 1, 1) } :
       /\ cells = w.cells
       /\ num_collapsed = w.num_collapsed
  /\ result = [kind |-> "new"]
  /\ steps = 0
  /\ pc = "cell"
  /\ twin = << >>
  /\ selected = -1
  /\ events = NoEvents

\* cell.collapse(rng) on a cell that holds a tile (choose_weighted has
\* something to choose from).
CellCollapse ==
  /\ pc = "cell"
  /\ Remaining(tiles, cells[0]) # << >>
  /\ \E choosen \in Choosable(tiles, cells[0]) :
       \E c \in { collapse(tiles, cells[0], choosen) } :
         /\ cells' = [cells EXCEPT ![0] = c.cell]
         /\ result' = [kind |-> "collapse", choosen |-> choosen, removed |-> c.removed]
  /\ UNCHANGED << tiles, x_cells, y_cells, num_collapsed, steps, pc, twin, selected, events >>

\* cell.removed_neighbor_tile(removed, removed_location) for any tile of the
\* table and any location.
CellRemovedNeighborTile ==
  /\ pc = "cell"
  /\ \E k \in 1..Len(tiles) : \E removed_location \in Locations :
       \E r \in { removed_neighbor_tile(cells[0], tiles[k], removed_location) } :
         /\ cells' = [cells EXCEPT ![0] = r.cell]
         /\ result' = [kind |-> "removed_neighbor_tile", removed |-> tiles[k],
                       removed_location |-> removed_location, out |-> r.out]
  /\ UNCHANGED << tiles, x_cells, y_cells, num_collapsed, steps, pc, twin, selected, events >>

NextCell == CellCollapse \/ CellRemovedNeighborTile

SpecCell == InitCell /\ [][NextCell]_vars

\* ---------------------------------------------------------------------------
\* The pure functions, each called once on any input within the bounds.
\* result holds the call and what it returned; selected holds the index
\* handed to get_neighbors.
\* ---------------------------------------------------------------------------
Pixels == 0..MaxPixel

\* Square patterns of side N >= 1, as Pattern::new accepts them.
Patterns(N) == { PatternNew(data) : data \in [1..(N * N) -> Pixels] }

AllPatterns == UNION { Patterns(N) : N \in 1..MaxSize }

Slots ==
  UNION { { SlotNew(data, location) : data \in [1..len -> Pixels], location \in Locations } :
          len \in 0..MaxSlotLen }

InitCalls ==
  /\ tiles = << >>
  /\ x_cells = 1
  /\ y_cells = 1
  /\ cells = << >>
  /\ num_collapsed = 0
  /\ result = [kind |-> "none"]
  /\ steps = 0
  /\ pc = "call"
  /\ twin = << >>
  /\ selected = -1
  /\ events = NoEvents

CallGetNeighbors ==
  /\ pc = "call"
  /\ \E x \in 1..MaxSide : \E y \in 1..MaxSide : \E index \in 0..(x * y - 1) :
       /\ x_cells' = x
       /\ y_cells' = y
       /\ selected' = index
       /\ result' = [kind |-> "get_neighbors", out |-> get_neighbors(x, y, index)]
  /\ pc' = "returned"
  /\ UNCHANGED << tiles, cells, num_collapsed, steps, twin, events >>

CallCanBeAdjacent ==
  /\ pc = "call"
  /\ \E self \in Slots : \E other \in Slots :
       result' = [kind |-> "can_be_adjacent", self |-> self, slot |-> other,
                  out |-> can_be_adjacent(self, other)]
  /\ pc' = "returned"
  /\ UNCHANGED << tiles, x_cells, y_cells, cells, num_collapsed, steps, twin, selected, events >>

CallSlot ==
  /\ pc = "call"
  /\ \E p \in AllPatterns : \E location \in Locations :
       result' = [kind |-> "slot", p |-> p, location |-> location, out |-> slot(p, location)]
  /\ pc' = "returned"
  /\ UNCHANGED << tiles, x_cells, y_cells, cells, num_collapsed, steps, twin, selected, events >>

CallRotate ==
  /\ pc = "call"
  /\ \E p \in AllPatterns :
       result' = [kind |-> "rotate", p |-> p, out |-> rotate(p)]
  /\ pc' = "returned"
  /\ UNCHANGED << tiles, x_cells, y_cells, cells, num_collapsed, steps, twin, selected, events >>

\* a.is_compatible(&b, location) with b = a.rotate().rotate(), as the test
\* is_compatible builds it.
CallIsCompatibleTurned ==
  /\ pc = "call"
  /\ \E a \in AllPatterns : \E location \in Locations : \E b \in { rotate(rotate(a)) } :
       result' = [kind |-> "is_compatible", a |-> a, b |-> b, b_location |-> location,
                  out |-> is_compatible(a, b, location)]
  /\ pc' = "returned"
  /\ UNCHANGED << tiles, x_cells, y_cells, cells, num_collapsed, steps, twin, selected, events >>

CallReflect ==
  /\ pc = "call"
  /\ \E p \in AllPatterns :
       result' = [kind |-> "reflect", p |-> p, out |-> reflect(p)]
  /\ pc' = "returned"
  /\ UNCHANGED << tiles, x_cells, y_cells, cells, num_collapsed, steps, twin, selected, events >>

\* p.rotate().rotate().rotate().rotate() and p.reflect().reflect()
CallRoundTrips ==
  /\ pc = "call"
  /\ \E p \in AllPatterns :
       result' = [kind |-> "round_trips", p |-> p,
                  rotated |-> rotate(rotate(rotate(rotate(p)))),
                  reflected |-> reflect(reflect(p))]
  /\ pc' = "returned"
  /\ UNCHANGED << tiles, x_cells, y_cells, cells, num_collapsed, steps, twin, selected, events >>

\* Pattern::new on any data of at most MaxDataLen values: a pattern, or the
\* panic of the assert_eq!.
CallPatternNew ==
  /\ pc = "call"
  /\ \E len \in 0..MaxDataLen : \E data \in [1..len -> Pixels] :
       result' = IF PatternNewOk(data)
                 THEN [kind |-> "new", data |-> data, ok |-> TRUE, out |-> PatternNew(data)]
                 ELSE [kind |-> "new", data |-> data, ok |-> FALSE]
  /\ pc' = "returned"
  /\ UNCHANGED << tiles, x_cells, y_cells, cells, num_collapsed, steps, twin, selected, events >>

NextCalls ==
  \/ CallGetNeighbors
  \/ CallCanBeAdjacent
  \/ CallSlot
  \/ CallRotate
  \/ CallIsCompatibleTurned
  \/ CallReflect
  \/ CallRoundTrips
  \/ CallPatternNew

SpecCalls == InitCalls /\ [][NextCalls]_vars

\* a.is_compatible(&b, location) on any two patterns within the bounds.
InitPairs == InitCalls

CallIsCompatible ==
  /\ pc = "call"
  /\ \E a \in AllPatterns : \E b \in AllPatterns : \E location \in Locations :
       result' = [kind |-> "is_compatible", a |-> a, b |-> b, b_location |-> location,
                  out |-> is_compatible(a, b, location)]
  /\ pc' = "returned"
  /\ UNCHANGED << tiles, x_cells, y_cells, cells, num_collapsed, steps, twin, selected, events >>

NextPairs == CallIsCompatible

SpecPairs == InitPairs /\ [][NextPairs]_vars

\* p.all_permutations() on any pattern of side 1..MaxPermSize.
InitPermutations == InitCalls

CallAllPermutations ==
  /\ pc = "call"
  /\ \E N \in 1..MaxPermSize : \E p \in Patterns(N) :
       result' = [kind |-> "all_permutations", p |-> p, out |-> all_permutations(p)]
  /\ pc' = "returned"
  /\ UNCHANGED << tiles, x_cells, y_cells, cells, num_collapsed, steps, twin, selected, events >>

NextPermutations == CallAllPermutations

SpecPermutations == InitPermutations /\ [][NextPermutations]_vars

TypeOK ==
  /\ pc \in {"loop", "done", "failed", "aborted"}
  /\ num_collapsed \in 0..(x_cells * y_cells)
  /\ DOMAIN cells = 0..(x_cells * y_cells - 1)


\* ------------------------------------------------------------- the claims

\* Cell::choosen_tile of a collapsed cell: the first Some of the table.
choosen_tile(tileset, cell) == Head(Remaining(tileset, cell))

\* The tiles present in a cell's table, counted.
RemainingCount(cell) == Cardinality({ k \in 1..Len(cell.tiles) : cell.tiles[k] })

\* The sum over all cells of the stored remaining count.
TotalRemaining(cs) == SumSeq([k \in 1..Cardinality(DOMAIN cs) |-> cs[k - 1].num_remaining_tiles])

Ok == {"Continue", "Done"}

\* C1: when the steps so far returned no Contradiction and every cell is
\* collapsed, the tile of every cell is compatible, on each of its four
\* sides, with the tile of its toroidal neighbour on that side.
C1_FinalTilesCompatible ==
  (result.kind \in Ok /\ \A i \in DOMAIN cells : collapsed(cells[i]))
    => \A i \in DOMAIN cells : \A k \in 1..4 :
         tile_is_compatible(choosen_tile(tiles, cells[i]),
                            choosen_tile(tiles, cells[get_neighbors(x_cells, y_cells, i)[k]]),
                            Location[k])

C3_RemainingCountExact ==
  \A i \in DOMAIN cells : cells[i].num_remaining_tiles = RemainingCount(cells[i])

\* C3 witness: a step returned after collapsing one cell and removing some
\* but not all other tiles of another cell by propagation.
C3_Witness ==
  /\ result.kind = "Continue"
  /\ \E i \in DOMAIN cells : RemainingCount(cells[i]) = 1
  /\ \E i \in DOMAIN cells : RemainingCount(cells[i]) > 1 /\ RemainingCount(cells[i]) < Len(tiles)

\* C4: every tile remaining in a cell has support at least 1 in all four
\* directions, from construction on and for any tile set.
C4_SupportPositive ==
  \A i \in DOMAIN cells : \A k \in 1..Len(tiles) :
    cells[i].tiles[k] => \A d \in Locations : cells[i].ways_to_become_tile[k][d] >= 1

C10_SingleTileFirstStep ==
  (Len(tiles) = 1 /\ steps = 1)
    => /\ result.kind \in Ok
       /\ num_collapsed = x_cells * y_cells
       /\ \A i \in DOMAIN cells : Remaining(tiles, cells[i]) = << tiles[1] >>


\* C9: two runs started from the same exemplar, the same grid and the same
\* seed make the same sequence of (collapsed cell, chosen tile) picks and are
\* in the same wave state after every step.
C9_SameSeedSameRun == TwinAgrees

C12_AlreadyZeroIsNoOp ==
  [][ (result'.kind = "removed_neighbor_tile"
         /\ cells[0].ways_to_become_tile[Ix(result'.removed)][result'.removed_location] = 0)
        => (~ result'.out /\ cells'[0] = cells[0]) ]_vars

\* C12 witness: a call has returned None for a tile whose counter at the
\* called location is 0 while the cell still holds that tile.
C12_Witness ==
  /\ result.kind = "removed_neighbor_tile"
  /\ ~ result.out
  /\ cells[0].ways_to_become_tile[Ix(result.removed)][result.removed_location] = 0
  /\ cells[0].tiles[Ix(result.removed)]

\* C13: removed_neighbor_tile(t, d) removes t exactly when the counter of t at
\* the one location d goes from 1 to 0, whatever the other three counters
\* are: it then returns Some(t) and the count drops by exactly 1; when the
\* counter stays above 0 it returns None and the tiles are unchanged.
C13_RemovedExactlyOnLastWay ==
  [][ result'.kind = "removed_neighbor_tile" =>
        LET t == Ix(result'.removed)
            before == cells[0].ways_to_become_tile[t][result'.removed_location]
        IN /\ (cells'[0].tiles # cells[0].tiles) <=> (before = 1)
           /\ before = 1 =>
                /\ result'.out
                /\ cells[0].tiles[t] /\ ~ cells'[0].tiles[t]
                /\ cells'[0].tiles = [cells[0].tiles EXCEPT ![t] = FALSE]
                /\ cells'[0].num_remaining_tiles = cells[0].num_remaining_tiles - 1
           /\ before > 1 =>
                /\ ~ result'.out
                /\ cells'[0].num_remaining_tiles = cells[0].num_remaining_tiles
                /\ cells'[0].ways_to_become_tile[t][result'.removed_location] = before - 1 ]_vars

\* C13 witness: a call has returned Some(t) and the cell holds other tiles.
C13_Witness ==
  /\ result.kind = "removed_neighbor_tile"
  /\ result.out
  /\ ~ cells[0].tiles[Ix(result.removed)]
  /\ cells[0].num_remaining_tiles >= 1

\* C14: collapse on a cell that holds a tile picks a tile the cell held,
\* leaves exactly that tile with count 1, returns exactly the other tiles the
\* cell held (each once), clears the counters of every returned tile and
\* leaves the counters of the chosen tile as they were.
C14_CollapseKeepsTheChosen ==
  [][ result'.kind = "collapse" =>
        LET c == Ix(result'.choosen)
            others == { k \in 1..Len(tiles) : cells[0].tiles[k] /\ k # c }
        IN /\ cells[0].tiles[c]
           /\ cells'[0].tiles = [k \in 1..Len(tiles) |-> k = c]
           /\ cells'[0].num_remaining_tiles = 1
           /\ { result'.removed[k] : k \in 1..Len(result'.removed) } = { tiles[k] : k \in others }
           /\ Len(result'.removed) = Cardinality(others)
           /\ \A k \in others : cells'[0].ways_to_become_tile[k] = ZeroWays
           /\ cells'[0].ways_to_become_tile[c] = cells[0].ways_to_become_tile[c] ]_vars

\* C14 witness: a collapse has returned a tile and the chosen tile still has
\* a counter above 0.
C14_Witness ==
  /\ result.kind = "collapse"
  /\ Len(result.removed) >= 1
  /\ \E d \in Locations : cells[0].ways_to_become_tile[Ix(result.choosen)][d] > 0


\* C15: get_neighbors returns [north, east, south, west] with the wrapped
\* row-major formulas, every result is an index of the grid, and going to a
\* neighbour and back in the opposite direction returns to the start.
C15_NeighboursWrap ==
  result.kind = "get_neighbors" =>
    LET row == selected \div x_cells
        col == selected % x_cells
    IN /\ result.out = << ((row + y_cells - 1) % y_cells) * x_cells + col,
                          row * x_cells + ((col + 1) % x_cells),
                          ((row + 1) % y_cells) * x_cells + col,
                          row * x_cells + ((col + x_cells - 1) % x_cells) >>
       /\ \A k \in 1..4 : result.out[k] \in 0..(x_cells * y_cells - 1)
       /\ \A k \in 1..4 : \A back \in 1..4 :
            Location[back] = opposite(Location[k]) =>
              get_neighbors(x_cells, y_cells, result.out[k])[back] = selected

\* The corner of a grid of at least 3 by 3 cells: north and west both wrap.
C15_Witness ==
  /\ result.kind = "get_neighbors"
  /\ x_cells >= 3
  /\ y_cells >= 3
  /\ selected = 0
  /\ result.out = << (y_cells - 1) * x_cells, 1, x_cells, x_cells - 1 >>

\* C16: can_be_adjacent is true iff self's location is the opposite of the
\* other's, the two data have one length, and self.data[i] equals
\* other.data[len - 1 - i] for every i (0-based).
C16_AdjacentIffReversedMatch ==
  result.kind = "can_be_adjacent" =>
    (result.out <=>
       /\ result.self.location = opposite(result.slot.location)
       /\ Len(result.self.data) = Len(result.slot.data)
       /\ \A i \in 0..(Len(result.self.data) - 1) :
            result.self.data[i + 1] = result.slot.data[(Len(result.slot.data) - 1 - i) + 1])

\* Two slots that fit although their data differ read left to right.
C16_Witness ==
  /\ result.kind = "can_be_adjacent"
  /\ result.out
  /\ Len(result.self.data) >= 2
  /\ result.self.data # result.slot.data

\* C17: compatibility is symmetric: a.is_compatible(b, d) is true iff
\* b.is_compatible(a, opposite(d)) is.
C17_CompatibilitySymmetric ==
  result.kind = "is_compatible" =>
    (result.out <=> is_compatible(result.b, result.a, opposite(result.b_location)))

\* Two different patterns of side >= 2 that are compatible.
C17_Witness ==
  /\ result.kind = "is_compatible"
  /\ result.out
  /\ result.a.size >= 2
  /\ result.a # result.b

\* C18: a square pattern is compatible on every side with itself rotated
\* twice.
C18_CompatibleWithHalfTurn ==
  (result.kind = "is_compatible" /\ result.b = rotate(rotate(result.a))) => result.out

\* A pattern of side >= 2 that its half turn changes, found compatible.
C18_Witness ==
  /\ result.kind = "is_compatible"
  /\ result.b = rotate(rotate(result.a))
  /\ result.a.size >= 2
  /\ result.b # result.a
  /\ result.out

\* C19: slot(North) is the first row left to right, slot(East) the
\* rightmost column top to bottom, slot(South) the last row left to right,
\* slot(West) the leftmost column top to bottom, each tagged with its
\* direction.
C19_SlotsReadTheEdges ==
  result.kind = "slot" =>
    LET N == result.p.size
        at(r, c) == result.p.data[r * N + c + 1]
    IN /\ result.out.location = result.location
       /\ result.out.data =
            CASE result.location = "North" -> [k \in 1..N |-> at(0, k - 1)]
              [] result.location = "East" -> [k \in 1..N |-> at(k - 1, N - 1)]
              [] result.location = "South" -> [k \in 1..N |-> at(N - 1, k - 1)]
              [] result.location = "West" -> [k \in 1..N |-> at(k - 1, 0)]

\* The east slot of a pattern whose east and west columns differ.
C19_Witness ==
  /\ result.kind = "slot"
  /\ result.location = "East"
  /\ result.p.size >= 2
  /\ result.out.data # slot(result.p, "West").data
  /\ result.out.data # slot(result.p, "North").data

\* C20: rotate returns a pattern of the same size in which the cell at
\* (r, c) of the original stands at (c, N - 1 - r): a quarter turn
\* clockwise.
C20_RotateQuarterTurn ==
  result.kind = "rotate" =>
    LET N == result.p.size
    IN /\ result.out.size = N
       /\ Len(result.out.data) = N * N
       /\ \A r \in 0..(N - 1) : \A c \in 0..(N - 1) :
            result.out.data[c * N + (N - 1 - r) + 1] = result.p.data[r * N + c + 1]

\* A pattern of side >= 2 that the turn changes and a transposition would
\* turn into something else.
C20_Witness ==
  /\ result.kind = "rotate"
  /\ result.p.size >= 2
  /\ result.out # result.p
  /\ result.out # rotate_transposing(result.p)

\* C21: reflect returns a pattern of the same size in which the cell at
\* (r, c) of the original stands at (r, N - 1 - c): every row is reversed and
\* the order of the rows is kept.
C21_ReflectReversesRows ==
  result.kind = "reflect" =>
    LET N == result.p.size
    IN /\ result.out.size = N
       /\ Len(result.out.data) = N * N
       /\ \A r \in 0..(N - 1) : \A c \in 0..(N - 1) :
            result.out.data[r * N + (N - 1 - c) + 1] = result.p.data[r * N + c + 1]
       /\ \A r \in 0..(N - 1) :
            SubSeq(result.out.data, r * N + 1, r * N + N)
              = rev(SubSeq(result.p.data, r * N + 1, r * N + N))

\* A pattern of side >= 2 that the reflection changes and a mirroring of the
\* rows would turn into something else.
C21_Witness ==
  /\ result.kind = "reflect"
  /\ result.p.size >= 2
  /\ result.out # result.p
  /\ result.out # reflect_rows(result.p)

\* C22: rotate applied four times returns a pattern equal to the original,
\* and so does reflect applied twice.
C22_RoundTripsAreIdentity ==
  result.kind = "round_trips" =>
    /\ result.rotated = result.p
    /\ result.reflected = result.p

\* A pattern of side >= 2 that one rotate and one reflect both change.
C22_Witness ==
  /\ result.kind = "round_trips"
  /\ result.p.size >= 2
  /\ rotate(result.p) # result.p
  /\ reflect(result.p) # result.p
  /\ result.rotated = result.p
  /\ result.reflected = result.p

\* C23: all_permutations returns P, P reflected, R, R reflected, R^2,
\* R^2 reflected, R^3, R^3 reflected in that order, and rotating or
\* reflecting any of the 8 gives a pattern equal to one of the 8.
C23_PermutationsClosed ==
  result.kind = "all_permutations" =>
    LET P == result.p
        R == rotate(P)
        R2 == rotate(R)
        R3 == rotate(R2)
        set == { result.out[k] : k \in 1..Len(result.out) }
    IN /\ result.out = << P, reflect(P), R, reflect(R), R2, reflect(R2), R3, reflect(R3) >>
       /\ \A q \in set : rotate(q) \in set /\ reflect(q) \in set

\* A pattern whose 8 permutations are 8 different patterns.
C23_Witness ==
  /\ result.kind = "all_permutations"
  /\ Len(result.out) = 8
  /\ Cardinality({ result.out[k] : k \in 1..8 }) = 8

\* C24: Pattern::new fails on a data whose length is not a perfect square;
\* on a length N * N it gives a pattern with size = N and
\* Len(data) = size * size.
C24_PatternNewNeedsSquare ==
  result.kind = "new" =>
    /\ result.ok <=> \E N \in 0..Len(result.data) : N * N = Len(result.data)
    /\ result.ok =>
         /\ result.out.data = result.data
         /\ Len(result.out.data) = result.out.size * result.out.size

\* Both outcomes: a refused data of length 2, 3 or 5 and an accepted one of
\* length 4 are separate states; the witness is the refusal.
C24_Witness ==
  /\ result.kind = "new"
  /\ ~result.ok
  /\ Len(result.data) >= 2

\* C29: after construction and after any sequence of collapse and
\* removed_neighbor_tile calls, a cell's sum_weights is the sum of the weights
\* of exactly the tiles it still holds.
C29_SumWeightsIsSumOfRemaining ==
  pc = "cell" =>
    cells[0].sum_weights =
      SumSeq([k \in 1..Len(Remaining(tiles, cells[0])) |->
                Remaining(tiles, cells[0])[k].probability])

\* A cell of two tiles that lost one of them to a neighbour's removal and
\* still holds the other.
C29_Witness ==
  /\ pc = "cell"
  /\ Len(tiles) >= 2
  /\ result.kind = "removed_neighbor_tile"
  /\ result.out
  /\ Len(Remaining(tiles, cells[0])) = 1
  /\ cells[0].sum_weights > 0

\* The events the last step enqueued, in order.
StepEnqueued == SubSeq(events.enqueued, events.from + 1, Len(events.enqueued))

\* The last operation was a step that picked a cell.
Stepped == result.kind \in Ok \cup {"Contradiction"}

\* C25: within one step the events are processed in the order in which they
\* were enqueued, and for each processed event (i, t) the neighbours of i are
\* visited in the order North, East, South, West, the neighbour in direction
\* d being notified with the direction opposite d.
C25_FifoAndDirectionOrder ==
  Stepped =>
    /\ Len(events.processed) <= Len(StepEnqueued)
    /\ \A k \in 1..Len(events.processed) : events.processed[k] = StepEnqueued[k]
    /\ Len(events.visits) <= 4 * Len(events.processed)
    /\ Len(events.visits) > 4 * (Len(events.processed) - 1)
    /\ result.kind \in Ok => Len(events.visits) = 4 * Len(events.processed)
    /\ \A m \in 1..Len(events.visits) :
         LET v == events.visits[m]
             i == v.event.cell_index
             row == i \div x_cells
             col == i % x_cells
         IN /\ v.event = events.processed[((m - 1) \div 4) + 1]
            /\ v.d = << "North", "East", "South", "West" >>[((m - 1) % 4) + 1]
            /\ v.notified = << "South", "West", "North", "East" >>[((m - 1) % 4) + 1]
            /\ v.j = << ((row + y_cells - 1) % y_cells) * x_cells + col,
                        row * x_cells + ((col + 1) % x_cells),
                        ((row + 1) % y_cells) * x_cells + col,
                        row * x_cells + ((col + x_cells - 1) % x_cells) >>[((m - 1) % 4) + 1]

\* A step that processed two events or more, the later ones enqueued during
\* the drain, and returned Ok.
C25_Witness ==
  /\ result.kind \in Ok
  /\ Len(events.processed) >= 2
  /\ Len(events.visits) >= 8
  /\ events.processed[1].cell_index # events.processed[2].cell_index

C27_EventsBounded ==
  /\ \A a \in 1..Len(events.enqueued) : \A b \in 1..Len(events.enqueued) :
       a # b => events.enqueued[a] # events.enqueued[b]
  /\ Len(events.enqueued) <= x_cells * y_cells * Len(tiles)
  /\ events.max_queue <= x_cells * y_cells * Len(tiles)

\* A run of two steps or more that has enqueued events for two cells or
\* more, one of them during a drain.
C27_Witness ==
  /\ steps >= 2
  /\ Len(events.enqueued) >= 3
  /\ \E a \in 1..Len(events.enqueued) : \E b \in 1..Len(events.enqueued) :
       events.enqueued[a].cell_index # events.enqueued[b].cell_index

\* C28: at every quiescent point without contradiction, for every cell c,
\* every tile t remaining in c and every direction d, the support of t on
\* side d in c is the number of tiles remaining in the neighbour of c in
\* direction d that are compatible with t on side d.
C28_SupportCountsNeighbourTiles ==
  (pc \in {"loop", "done"} /\ result.kind \notin {"Contradiction", "Panic"}) =>
    \A c \in DOMAIN cells : \A t \in 1..Len(tiles) : \A d \in 1..4 :
      cells[c].tiles[t] =>
        cells[c].ways_to_become_tile[t][Location[d]] =
          Cardinality({ u \in 1..Len(tiles) :
                          /\ cells[get_neighbors(x_cells, y_cells, c)[d]].tiles[u]
                          /\ tile_is_compatible(tiles[t], tiles[u], Location[d]) })
====
